---------------------------- MODULE Spec2Model ----------------------------
(***************************************************************************)
(* The update-synchronisation engine of the CRM splash launcher:           *)
(* SplashScreen.check_for_update driving utils/update_manager.py           *)
(* (fetch_manifest, load_local_manifest, get_missing_or_corrupted_files,   *)
(* download_missing_files / download_file, save_local_manifest) and        *)
(* utils/utils.py (launch_client).                                         *)
(*                                                                         *)
(* A check_for_update coroutine is an asyncio task; it only yields at its  *)
(* awaits (the manifest fetch, the download request, each chunk read, the  *)
(* close of the HTTP session, the final sleep), so every action below is   *)
(* the code between two awaits.                                            *)
(***************************************************************************)
EXTENDS Integers, Sequences, FiniteSets, TLC

(***************************************************************************)
(* Bounds and the universe of inputs.                                      *)
(***************************************************************************)
\* How often the launcher is started, and how many clicks the retry button
\* gets, in one behaviour.
MaxRuns == 2
MaxClicks == 2

\* Slots for the check_for_update tasks alive at once.
Tasks == {1, 2}

\* utils/utils.py: CLIENT_EXE = cwd / "app" / "CRMClient.exe".
CLIENT_EXE == "app/CRMClient.exe"
DataPath == "app/data.bin"
\* A local file no remote manifest ever lists.
StrayPath == "notes.txt"

\* All relative paths, in the order Python sorts them (code points).
AllPaths == <<CLIENT_EXE, DataPath, StrayPath>>
PathSet == {AllPaths[n] : n \in 1..Len(AllPaths)}
ManifestPaths == {CLIENT_EXE, DataPath}

\* File contents are sequences of network chunks; a chunk is named by a
\* number 1..4 (0 is a run of zero bytes, the hole a write past the end of
\* a file leaves).  Two complete contents the file server may send for the
\* client, and the content of the data file, which fits one chunk.
ContentV1 == <<1, 2>>
ContentV2 == <<3, 4>>
Contents == {ContentV1, ContentV2}
ContentData == <<1>>

\* len(chunk) for each chunk, in a unit that is the byte or a multiple of
\* it: the percentages depend on the proportions only, while the unit
\* decides whether f.write fills the write buffer or writes through (see
\* AfterChunk).
ChunkBytes(c) == CASE c = 1 -> 4 [] c = 2 -> 3 [] c = 3 -> 7 [] OTHER -> 5

RECURSIVE TotalBytes(_)
TotalBytes(data) ==
    IF data = <<>> THEN 0 ELSE ChunkBytes(Head(data)) + TotalBytes(Tail(data))

(***************************************************************************)
(* sha256_file: a SHA-256 accumulator fed chunk by chunk.  The digest is   *)
(* modelled collision-free: a positional encoding of the chunk sequence.   *)
(***************************************************************************)
Sha256Update(h, chunk) == h * 6 + chunk + 1

RECURSIVE Sha256Feed(_, _)
Sha256Feed(h, data) ==
    IF data = <<>> THEN h ELSE Sha256Feed(Sha256Update(h, Head(data)), Tail(data))

\* Variant: a single f.read(64 * 1024) instead of the loop.
sha256_file_FirstChunkOnly(data) ==
    IF data = <<>> THEN 0 ELSE Sha256Feed(0, <<Head(data)>>)

sha256_file(data) == Sha256Feed(0, data)


(***************************************************************************)
(* State.                                                                  *)
(***************************************************************************)
VARIABLES
    proc,   \* "running" while the Qt/asyncio loop runs, else how it ended:
            \* "launched" (client started, window closed), "closed" (the
            \* close button), "killed" (stopped inside a save)
    mf,     \* the file manifest_local.json
    dir,    \* the local directory: path -> file
    ui,     \* the splash screen's widgets
    task,   \* the check_for_update tasks, by slot
    server, \* the server side during this run
    runs,   \* starts of the launcher so far
    clicks  \* clicks on the retry button so far

vars == <<proc, mf, dir, ui, task, server, runs, clicks>>

(***************************************************************************)
(* Python dicts as the code uses them.  A manifest-like dict is a record   *)
(* of the keys it holds plus the value of each key; "files" is a dict      *)
(* itself, kept as the sequence of its (path, hash) items in iteration     *)
(* order (insertion order).                                                *)
(***************************************************************************)
Dict(keys, err, url, files) ==
    [keys |-> keys, err |-> err, download_url |-> url, files |-> files]

\* `key in d`
HasKey(d, key) == key \in d.keys

Item(p, h) == [path |-> p, hash |-> h]

\* The paths of a files dict, in iteration order.
FilePaths(files) == [n \in 1..Len(files) |-> files[n].path]

\* files.get(path): the stored hash, or None (modelled as -1).
FilesGet(files, path) ==
    IF \E n \in 1..Len(files) : files[n].path = path
    THEN (CHOOSE it \in {files[n] : n \in 1..Len(files)} : it.path = path).hash
    ELSE -1

\* Two files dicts are equal as Python dicts: same keys, same values.
SameMapping(f, g) ==
    /\ {f[n] : n \in 1..Len(f)} = {g[n] : n \in 1..Len(g)}
    /\ Len(f) = Len(g)

\* load_local_manifest's default: {"files": {}}.
DefaultManifest == Dict({"files"}, "", "", <<>>)

\* fetch_manifest's error values: {"err": ...}.
ErrDict(e) == Dict({"err"}, e, "", <<>>)

DownloadUrl == "http://x/files"

RemoteManifest(files) == Dict({"download_url", "files"}, "", DownloadUrl, files)

(***************************************************************************)
(* The text of the local manifest file, as a sequence of JSON tokens.      *)
(***************************************************************************)
Tok(t, s, n) == [t |-> t, s |-> s, n |-> n]
LBrace == Tok("{", "", 0)
RBrace == Tok("}", "", 0)
Key(k) == Tok("key", k, 0)
Str(s) == Tok("str", s, 0)
Hex(h) == Tok("hex", "", h)

\* The items of a files dict with sort_keys=True: by path.
RECURSIVE SortedItems(_, _)
SortedItems(files, n) ==
    IF n > Len(AllPaths) THEN <<>>
    ELSE SelectSeq(files, LAMBDA it : it.path = AllPaths[n])
         \o SortedItems(files, n + 1)

RECURSIVE DumpItems(_)
DumpItems(items) ==
    IF items = <<>> THEN <<>>
    ELSE <<Key(Head(items).path), Hex(Head(items).hash)>> \o DumpItems(Tail(items))

\* json.dump(manifest, f, indent=4, sort_keys=True): the keys of the top
\* level come out as "download_url" < "err" < "files".
JsonDump(d) ==
    <<LBrace>>
    \o (IF HasKey(d, "download_url") THEN <<Key("download_url"), Str(d.download_url)>> ELSE <<>>)
    \o (IF HasKey(d, "err") THEN <<Key("err"), Str(d.err)>> ELSE <<>>)
    \o (IF HasKey(d, "files")
        THEN <<Key("files"), LBrace>> \o DumpItems(SortedItems(d.files, 1)) \o <<RBrace>>
        ELSE <<>>)
    \o <<RBrace>>

\* json.load: a recursive-descent reading of the tokens.  The result is
\* [ok |-> FALSE] for text that is not a JSON document (JSONDecodeError).
\* A key that occurs again keeps the place of its first occurrence in the
\* dict and takes the last value.
ParseFail == [ok |-> FALSE, d |-> Dict({}, "", "", <<>>), pos |-> 0]

RECURSIVE ParseItems(_, _, _)
ParseItems(text, pos, acc) ==
    IF pos > Len(text) THEN ParseFail
    ELSE IF text[pos] = RBrace THEN [ok |-> TRUE, d |-> acc, pos |-> pos + 1]
    ELSE IF pos + 1 <= Len(text) /\ text[pos].t = "key" /\ text[pos + 1].t = "hex"
         THEN ParseItems(text, pos + 2,
                         [acc EXCEPT !.files =
                             IF \E n \in 1..Len(@) : @[n].path = text[pos].s
                             THEN [n \in 1..Len(@) |->
                                     IF @[n].path = text[pos].s
                                     THEN Item(text[pos].s, text[pos + 1].n)
                                     ELSE @[n]]
                             ELSE @ \o <<Item(text[pos].s, text[pos + 1].n)>>])
    ELSE ParseFail

RECURSIVE ParseMembers(_, _, _)
ParseMembers(text, pos, acc) ==
    IF pos > Len(text) THEN ParseFail
    ELSE IF text[pos] = RBrace
         THEN (IF pos = Len(text) THEN [ok |-> TRUE, d |-> acc, pos |-> pos + 1]
               ELSE ParseFail)
    ELSE IF pos + 1 > Len(text) \/ text[pos].t # "key" THEN ParseFail
    ELSE IF text[pos].s = "files" /\ text[pos + 1] = LBrace
         THEN LET r == ParseItems(text, pos + 2,
                                  [acc EXCEPT !.keys = @ \cup {"files"}, !.files = <<>>])
              IN  IF r.ok THEN ParseMembers(text, r.pos, r.d) ELSE ParseFail
    ELSE IF text[pos].s = "download_url" /\ text[pos + 1].t = "str"
         THEN ParseMembers(text, pos + 2,
                           [acc EXCEPT !.keys = @ \cup {"download_url"},
                                       !.download_url = text[pos + 1].s])
    ELSE IF text[pos].s = "err" /\ text[pos + 1].t = "str"
         THEN ParseMembers(text, pos + 2,
                           [acc EXCEPT !.keys = @ \cup {"err"}, !.err = text[pos + 1].s])
    ELSE ParseFail

JsonLoad(text) ==
    IF Len(text) >= 2 /\ text[1] = LBrace
    THEN ParseMembers(text, 2, Dict({}, "", "", <<>>))
    ELSE ParseFail

\* The local manifest file: absent, or a file holding a text.
NoFile == [exists |-> FALSE, text |-> <<>>]
FileOf(text) == [exists |-> TRUE, text |-> text]

(***************************************************************************)
(* utils/update_manager.py: the manifest store and the diff.               *)
(***************************************************************************)
\* A local file: absent, or the chunks written to it so far.
Absent == [exists |-> FALSE, data |-> <<>>]
FileWith(data) == [exists |-> TRUE, data |-> data]

\* load_local_manifest(): json.load of the file if it exists, else the
\* default.  json.load raises JSONDecodeError on text that is not JSON and
\* nothing here catches it.
load_local_manifest(file) ==
    IF file.exists
    THEN LET r == JsonLoad(file.text)
         IN  [raised |-> ~r.ok, value |-> r.d]
    ELSE [raised |-> FALSE, value |-> DefaultManifest]

\* Variant: the file is opened with "a" and the dump lands after what the
\* file held.
save_local_manifest_Appended(manifest) == FileOf(mf.text \o JsonDump(manifest))

\* Variant: the new entries are merged into the manifest already on disk
\* (old["files"].update(manifest["files"])) instead of replacing it.
save_local_manifest_Merged(manifest) ==
    LET old == load_local_manifest(mf).value.files
        kept == SelectSeq(old, LAMBDA it : FilesGet(manifest.files, it.path) = -1)
    IN  FileOf(JsonDump([manifest EXCEPT !.files = kept \o @]))

\* save_local_manifest(manifest), run to its end: the file holds the dump
\* of the manifest and nothing else.
save_local_manifest(manifest) == FileOf(JsonDump(manifest))

\* save_local_manifest stopped on the way: open(MANIFEST_LOCAL, "w") has
\* emptied the file in place and json.dump has written the text front to
\* back as far as `cut` tokens.
CutShort(file, cut) == FileOf(SubSeq(file.text, 1, cut))

\* The loop of get_missing_or_corrupted_files over server_manifest["files"]
\* .items(): local_manifest["files"].get(rel_path) is evaluated (and
\* unused), then the file is hashed if it exists.
RECURSIVE DiffLoop(_, _, _, _)
DiffLoop(items, local_dir, local_manifest, acc) ==
    IF items = <<>> THEN acc
    ELSE IF ~HasKey(local_manifest, "files") THEN [acc EXCEPT !.raised = TRUE]
    ELSE LET rel_path == Head(items).path
             server_hash == Head(items).hash
             local_hash == FilesGet(local_manifest.files, rel_path)
             file == local_dir[rel_path]
         IN  IF ~file.exists
             THEN DiffLoop(Tail(items), local_dir, local_manifest,
                           [acc EXCEPT !.value = Append(@, rel_path)])
             ELSE IF sha256_file(file.data) # server_hash
             THEN DiffLoop(Tail(items), local_dir, local_manifest,
                           [acc EXCEPT !.value = Append(@, rel_path),
                                       !.hashed = @ \cup {rel_path}])
             ELSE DiffLoop(Tail(items), local_dir, local_manifest,
                           [acc EXCEPT !.hashed = @ \cup {rel_path}])

\* Variant: the stored local hash decides instead of the file's digest
\* (local_hash != server_hash).
RECURSIVE DiffLoop_ByLocalManifest(_, _, _, _)
DiffLoop_ByLocalManifest(items, local_dir, local_manifest, acc) ==
    IF items = <<>> THEN acc
    ELSE IF ~HasKey(local_manifest, "files") THEN [acc EXCEPT !.raised = TRUE]
    ELSE LET rel_path == Head(items).path
         IN  IF \/ ~local_dir[rel_path].exists
                \/ FilesGet(local_manifest.files, rel_path) # Head(items).hash
             THEN DiffLoop_ByLocalManifest(Tail(items), local_dir, local_manifest,
                                           [acc EXCEPT !.value = Append(@, rel_path)])
             ELSE DiffLoop_ByLocalManifest(Tail(items), local_dir, local_manifest, acc)

get_missing_or_corrupted_files_ByLocalManifest(local_dir, server_manifest, local_manifest) ==
    IF ~HasKey(server_manifest, "files")
    THEN [raised |-> TRUE, value |-> <<>>, hashed |-> {}]
    ELSE DiffLoop_ByLocalManifest(server_manifest.files, local_dir, local_manifest,
                                  [raised |-> FALSE, value |-> <<>>, hashed |-> {}])

\* Variant: the files are read with server_manifest.get("files", {}), so a
\* value without "files" gives an empty list instead of KeyError.
get_missing_or_corrupted_files_FilesOptional(local_dir, server_manifest, local_manifest) ==
    IF ~HasKey(server_manifest, "files")
    THEN [raised |-> FALSE, value |-> <<>>, hashed |-> {}]
    ELSE DiffLoop(server_manifest.files, local_dir, local_manifest,
                  [raised |-> FALSE, value |-> <<>>, hashed |-> {}])

\* Variant: `not file_path.exists() or` is lost: a missing file is skipped
\* and only an existing file with another digest is returned.
get_missing_or_corrupted_files_OnlyCorrupted(local_dir, server_manifest, local_manifest) ==
    IF ~HasKey(server_manifest, "files")
    THEN [raised |-> TRUE, value |-> <<>>, hashed |-> {}]
    ELSE IF server_manifest.files # <<>> /\ ~HasKey(local_manifest, "files")
    THEN [raised |-> TRUE, value |-> <<>>, hashed |-> {}]
    ELSE [raised |-> FALSE,
          value |-> SelectSeq(FilePaths(server_manifest.files),
                              LAMBDA q : /\ local_dir[q].exists
                                         /\ sha256_file(local_dir[q].data)
                                                # FilesGet(server_manifest.files, q)),
          hashed |-> {q \in PathSet : local_dir[q].exists
                                      /\ FilesGet(server_manifest.files, q) # -1}]

\* Variant: the digest comparison is lost (`or sha256_file(file_path)`), so
\* every path of the remote manifest is returned.
get_missing_or_corrupted_files_Everything(local_dir, server_manifest, local_manifest) ==
    IF ~HasKey(server_manifest, "files") \/ ~HasKey(local_manifest, "files")
    THEN [raised |-> TRUE, value |-> <<>>, hashed |-> {}]
    ELSE [raised |-> FALSE, value |-> FilePaths(server_manifest.files),
          hashed |-> {q \in PathSet : local_dir[q].exists
                                      /\ FilesGet(server_manifest.files, q) # -1}]

\* get_missing_or_corrupted_files(local_dir, server_manifest, local_manifest);
\* server_manifest["files"] raises KeyError when the key is missing.
get_missing_or_corrupted_files(local_dir, server_manifest, local_manifest) ==
    IF ~HasKey(server_manifest, "files")
    THEN [raised |-> TRUE, value |-> <<>>, hashed |-> {}]
    ELSE DiffLoop(server_manifest.files, local_dir, local_manifest,
                  [raised |-> FALSE, value |-> <<>>, hashed |-> {}])

(***************************************************************************)
(* Progress arithmetic.  Python computes both percentages in IEEE-754      *)
(* doubles and truncates with int().                                       *)
(***************************************************************************)
\* download_file: int(downloaded / total * 100).  For the lengths the
\* servers below declare (1, 4, 7 and 12) the double result truncates to the
\* exact floor, also when downloaded exceeds total.
FilePercent(downloaded, total) == (downloaded * 100) \div total

\* The (total_files, i, p) for which the double (i - 1 + p / 100) /
\* total_files * 100 falls just below the exact quotient, for batches of up
\* to two files and p up to 400 (p exceeds 100 when more bytes arrive than
\* Content-Length announced).
RoundedDown ==
    { <<1, 1, 29>>, <<1, 1, 57>>, <<1, 1, 58>>, <<1, 1, 113>>, <<1, 1, 114>>,
      <<1, 1, 115>>, <<1, 1, 116>>, <<1, 1, 201>>, <<1, 1, 203>>, <<1, 1, 205>>,
      <<1, 1, 207>>, <<1, 1, 226>>, <<1, 1, 228>>, <<1, 1, 230>>, <<1, 1, 232>>,
      <<1, 1, 251>>, <<1, 1, 253>>, <<1, 1, 255>>,
      <<2, 1, 58>>, <<2, 1, 114>>, <<2, 1, 116>>, <<2, 1, 226>>, <<2, 1, 228>>,
      <<2, 1, 230>>, <<2, 1, 232>>,
      <<2, 2, 16>>, <<2, 2, 82>>, <<2, 2, 114>>, <<2, 2, 118>>, <<2, 2, 122>>,
      <<2, 2, 126>>, <<2, 2, 130>>, <<2, 2, 164>>, <<2, 2, 302>>, <<2, 2, 310>>,
      <<2, 2, 328>>, <<2, 2, 336>>, <<2, 2, 344>>, <<2, 2, 352>>, <<2, 2, 360>>,
      <<2, 2, 378>>, <<2, 2, 386>>, <<2, 2, 394>> }

\* download_missing_files' lambda: int((i - 1 + p / 100) / total_files * 100).
OverallPercent(i, p, total_files) ==
    LET exact == ((i - 1) * 100 + p) \div total_files
    IN  IF <<total_files, i, p>> \in RoundedDown THEN exact - 1 ELSE exact

(***************************************************************************)
(* What the network can answer.                                            *)
(***************************************************************************)
\* The digests the server side computed for the two contents.
HashV1 == Sha256Feed(0, ContentV1)
HashV2 == Sha256Feed(0, ContentV2)
HashData == Sha256Feed(0, ContentData)

\* The Content-Length of a body sent compressed (Content-Encoding: gzip or
\* deflate, which aiohttp.ClientSession() asks for by default): the length
\* of the compressed body, here a quarter of the bytes iter_chunked yields
\* once aiohttp has decompressed it.
Compressed(data) == TotalBytes(data) \div 4

\* What the server side holds during one run of the launcher: the manifest
\* it publishes, the content resp.content yields for each path, and the
\* Content-Length header it sends with it (0: no header).  Item order is
\* the order of the JSON object, which need not be sorted; the content sent
\* need not be the one the manifest was computed from (the fourth server
\* sends the first version of the client under the digest of the second, as
\* a body of unknown length); the header is the length of the body on the
\* wire, which is below the bytes delivered when the body is sent
\* compressed (the last server, for the data file).
Server(files, exe, exe_len, data_len) ==
    [manifest |-> RemoteManifest(files),
     content |-> [p \in ManifestPaths |-> IF p = CLIENT_EXE THEN exe ELSE ContentData],
     length |-> [p \in ManifestPaths |-> IF p = CLIENT_EXE THEN exe_len ELSE data_len]]

Servers ==
    { Server(<<Item(DataPath, HashData), Item(CLIENT_EXE, HashV1)>>, ContentV1,
             TotalBytes(ContentV1), TotalBytes(ContentData)),
      Server(<<Item(DataPath, HashData), Item(CLIENT_EXE, HashV1)>>, ContentV1,
             TotalBytes(ContentV1), 0),
      Server(<<Item(CLIENT_EXE, HashV2)>>, ContentV2,
             TotalBytes(ContentV2), TotalBytes(ContentData)),
      Server(<<Item(CLIENT_EXE, HashV2)>>, ContentV1, 0, TotalBytes(ContentData)),
      Server(<<>>, ContentV1, 0, 0),
      Server(<<Item(DataPath, HashData), Item(CLIENT_EXE, HashV1)>>, ContentV1,
             TotalBytes(ContentV1), Compressed(ContentData)) }

ServerManifests == {sv.manifest : sv \in Servers}

\* Outcomes of Requests(server_url).get("") against server sv: a DNS
\* failure (ClientConnectorDNSError), a non-2xx answer (ClientResponseError
\* raised by _request), any other aiohttp failure (connection refused,
\* server disconnected), a 2xx body that is the manifest, or a 2xx body that
\* is a JSON object without "files" and without "err".
FetchOutcomes(sv) ==
    {[kind |-> k, body |-> DefaultManifest] : k \in {"dns", "http", "transport", "other"}}
    \cup {[kind |-> "json", body |-> sv.manifest]}

\* Variant: the DNS failure is reported under another code than the one
\* check_for_update tests for.
fetch_manifest_OtherCode(outcome) ==
    CASE outcome.kind = "dns" -> [raised |-> FALSE, value |-> ErrDict("DNS")]
      [] outcome.kind = "http" -> [raised |-> FALSE, value |-> ErrDict("500, message=...")]
      [] outcome.kind = "transport" -> [raised |-> TRUE, value |-> Dict({}, "", "", <<>>)]
      [] outcome.kind = "json" -> [raised |-> FALSE, value |-> outcome.body]
      [] OTHER -> [raised |-> FALSE, value |-> Dict({}, "", "", <<>>)]

\* fetch_manifest(server_url): only ClientConnectorDNSError and
\* ClientResponseError are caught.
fetch_manifest(outcome) ==
    CASE outcome.kind = "dns" -> [raised |-> FALSE, value |-> ErrDict("DNS_ERROR")]
      [] outcome.kind = "http" -> [raised |-> FALSE, value |-> ErrDict("500, message=...")]
      [] outcome.kind = "transport" -> [raised |-> TRUE, value |-> Dict({}, "", "", <<>>)]
      [] outcome.kind = "json" -> [raised |-> FALSE, value |-> outcome.body]
      [] OTHER -> [raised |-> FALSE, value |-> Dict({}, "", "", <<>>)]

\* Outcomes of session.get(url) in download_file for rel_path: the request
\* fails or the status is not 2xx (raise_for_status raises), or a 2xx answer
\* carrying the server's content and its Content-Length header, if any.
\* waits tells, for a failure, whether session.close() suspends when the
\* exception leaves `async with aiohttp.ClientSession()`: it depends on the
\* aiohttp release and on whether the session still holds the connection
\* (an answer with an error status) or not (no connection was made).
DownloadOutcomes(sv, rel_path) ==
    { [kind |-> "fail", content |-> <<>>, length |-> 0, waits |-> w] : w \in BOOLEAN }
    \cup { [kind |-> "ok", content |-> sv.content[rel_path],
             length |-> sv.length[rel_path], waits |-> FALSE] }

(***************************************************************************)
(* The widgets and the tasks.                                              *)
(***************************************************************************)
Label(msg, file, n) == [msg |-> msg, file |-> file, n |-> n]

\* SplashScreen.init_ui: the widgets as constructed.  A fresh QProgressBar
\* shows value -1; button_reload.setVisible(False).
InitUi ==
    [label |-> Label("Verification des mises a jour...", "", 0),
     progress_visible |-> TRUE,
     progress_value |-> -1,
     reload_visible |-> FALSE]

\* QProgressBar.setValue(value) on the bar as constructed (range 0..100): a
\* value outside the range leaves the bar as it is.
setValue(w, value) ==
    IF value \in 0..100 THEN [w EXCEPT !.progress_value = value] ELSE w

\* SplashScreen.error(text, error).
error(w, text, err) ==
    [w EXCEPT !.label = Label(text, "", 0),
              !.progress_visible = ~err,
              !.reload_visible = err]

\* A slot with no task.  Besides the coroutine's locals (server_manifest,
\* local_manifest, to_download, i, total, downloaded) and the response
\* being streamed (content, got chunks, of which the last `buffered` ones
\* are still in the write buffer of the open file), a task records what its
\* pass did:
\* how the manifest request came out, whether a file request or stream
\* failed, how it ended, its reads and writes of the manifest file, the files it
\* hashed, requested and opened for writing, the manifest file it started
\* from, the directory it started from if it started alone, and whether
\* another task wrote the manifest file meanwhile.
IdleTask ==
    [pc |-> "idle",
     server_manifest |-> Dict({}, "", "", <<>>),
     local_manifest |-> Dict({}, "", "", <<>>),
     to_download |-> <<>>,
     i |-> 0, total |-> 0, downloaded |-> 0,
     content |-> <<>>, got |-> 0, buffered |-> 0,
     fetched |-> "", download_failed |-> FALSE, end |-> "",
     reads |-> 0, writes |-> 0,
     diffed |-> FALSE,
     hashed |-> {}, requested |-> <<>>, opened |-> {},
     events |-> <<>>,
     mf0 |-> NoFile, dir0 |-> [p \in PathSet |-> Absent],
     foreign_write |-> FALSE]

InFlight == {"fetching", "requesting", "streaming", "closing_session", "sleeping"}
Live == InFlight \cup {"scheduled"}

\* Local directories the launcher may be started in.
InitDirs ==
    { [p \in PathSet |-> Absent],
      [p \in PathSet |-> IF p = StrayPath THEN FileWith(ContentV2)
                         ELSE IF p = DataPath THEN FileWith(ContentData)
                         ELSE FileWith(ContentV1)] }

\* Manifest files a previous run may have left: none, or a saved manifest.
InitManifestFiles ==
    {NoFile, FileOf(JsonDump(RemoteManifest(<<Item(CLIENT_EXE, HashV1), Item(DataPath, HashData)>>)))}

\* SplashScreen(): the widgets are built and QTimer.singleShot(0, ...)
\* schedules the first check_for_update.
Init ==
    /\ proc = "running"
    /\ mf \in InitManifestFiles
    /\ dir \in InitDirs
    /\ ui = InitUi
    /\ task = [t \in Tasks |-> IF t = 1 THEN [IdleTask EXCEPT !.pc = "scheduled"] ELSE IdleTask]
    /\ server \in Servers
    /\ runs = 1
    /\ clicks = 0

(***************************************************************************)
(* SplashScreen.check_for_update, cut at its awaits.  Each piece returns   *)
(* the values the synchronous run leaves behind: the task, the manifest    *)
(* file, the directory, the widgets, and the state of the process.         *)
(***************************************************************************)
Result(tk, file, d, w, p) ==
    [tk |-> tk, mf |-> file, dir |-> d, ui |-> w, proc |-> p]

\* An exception leaves the coroutine: the task is over, nothing is shown.
Raise(tk, w, why) ==
    Result([tk EXCEPT !.pc = "crashed", !.end = why], mf, dir, w, "running")

\* Variant: progress_bar.setValue(100) is left out after the save.
Persist_NoFinalReport(tk, w, cut) ==
    IF cut < Len(JsonDump(tk.server_manifest))
    THEN Result([tk EXCEPT !.pc = "killed", !.end = "killed_in_save", !.writes = @ + 1],
                CutShort(FileOf(JsonDump(tk.server_manifest)), cut), dir, w, "killed")
    ELSE Result([tk EXCEPT !.pc = "sleeping", !.writes = @ + 1],
                FileOf(JsonDump(tk.server_manifest)), dir,
                [w EXCEPT !.label = Label("Lancement de l'application...", "", 0)],
                "running")

\* Steps 4 and 5 up to the sleep: save_local_manifest(server_manifest),
\* the label, progress_bar.setValue(100), await asyncio.sleep(0.2).  With
\* cut below the length of the text the process stops inside the save.
Persist(tk, w, cut) ==
    LET file == save_local_manifest(tk.server_manifest)
    IN  IF cut < Len(JsonDump(tk.server_manifest))
        THEN Result([tk EXCEPT !.pc = "killed", !.end = "killed_in_save", !.writes = @ + 1],
                    CutShort(file, cut), dir, w, "killed")
        ELSE Result([tk EXCEPT !.pc = "sleeping", !.writes = @ + 1,
                               !.events = Append(@, 100)],
                    file, dir,
                    [w EXCEPT !.label = Label("Lancement de l'application...", "", 0),
                              !.progress_value = 100],
                    "running")

\* download_missing_files' loop reaching file number i: download_file up to
\* `async with session.get(url)`.  server_manifest["download_url"] raises
\* KeyError when the key is missing.
RequestFile(tk, w, i) ==
    IF ~HasKey(tk.server_manifest, "download_url")
    THEN Raise(tk, w, "download_exception")
    ELSE Result([tk EXCEPT !.pc = "requesting", !.i = i,
                           !.total = 0, !.downloaded = 0, !.content = <<>>, !.got = 0,
                           !.buffered = 0,
                           !.requested = Append(@, tk.to_download[i])],
                mf, dir, w, "running")

\* check_for_update from the return of fetch_manifest to the next await.
AfterFetch(tk, outcome, cut) ==
    LET fm == fetch_manifest(outcome)
        tk1 == [tk EXCEPT !.fetched = outcome.kind, !.server_manifest = fm.value]
    IN  IF fm.raised THEN Raise(tk1, ui, "fetch_exception")
        ELSE IF HasKey(fm.value, "err") /\ fm.value.err = "DNS_ERROR"
        THEN Result([tk1 EXCEPT !.pc = "error", !.end = "dns_error"], mf, dir,
                    error(ui, "Erreur de connexion\nVerifiez votre connexion internet !", TRUE),
                    "running")
        ELSE
        LET ld == load_local_manifest(mf)
            tk2 == [tk1 EXCEPT !.reads = @ + 1, !.local_manifest = ld.value]
        IN  IF ld.raised THEN Raise(tk2, ui, "load_exception")
            ELSE
            LET w2 == [ui EXCEPT !.label = Label("Verification des fichiers locaux...", "", 0)]
                df == get_missing_or_corrupted_files(dir, fm.value, ld.value)
                tk3 == [tk2 EXCEPT !.hashed = df.hashed, !.to_download = df.value,
                                   !.diffed = ~df.raised]
            IN  IF df.raised THEN Raise(tk3, w2, "diff_exception")
                ELSE IF df.value # <<>>
                THEN RequestFile(tk3,
                                 [w2 EXCEPT !.label =
                                     Label("Telechargement de \n{n} fichier(s)...", "", Len(df.value))],
                                 1)
                ELSE Persist(tk3, w2, cut)

\* A chunk leaving the write buffer of a handle whose position is after
\* k - 1 chunks: it lands at place k whatever the file holds by now.
WriteAt(data, k, c) ==
    [n \in 1..(IF Len(data) > k THEN Len(data) ELSE k) |->
        IF n = k THEN c ELSE IF n <= Len(data) THEN data[n] ELSE 0]

\* The buffered writer flushing chunks from..to of content, in order.
RECURSIVE Flush(_, _, _, _)
Flush(data, content, from, to) ==
    IF from > to THEN data
    ELSE Flush(WriteAt(data, from, content[from]), content, from + 1, to)

\* The file object of task tk is closed (the end of `with open(...)`, by
\* a normal exit or by an exception passing through): what is still in
\* its write buffer reaches the file.
CloseFile(d, tk) ==
    IF tk.pc = "streaming" /\ tk.buffered > 0
    THEN [d EXCEPT ![tk.to_download[tk.i]] =
             FileWith(Flush(@.data, tk.content, tk.got - tk.buffered + 1, tk.got))]
    ELSE d

\* The directory a stopping process can leave: the coroutines suspended in
\* a download are dropped with the interpreter, and their open files are
\* either closed on the way (in one order or the other) or never flushed.
ExitDirs(d, tasks) ==
    {d, CloseFile(CloseFile(d, tasks[1]), tasks[2]),
        CloseFile(CloseFile(d, tasks[2]), tasks[1])}

\* Variant: a failed request is swallowed around download_missing_files and
\* check_for_update goes on to the save.
AfterResponse_FailureSwallowed(tk, outcome) ==
    IF outcome.kind = "fail"
    THEN Persist([tk EXCEPT !.download_failed = TRUE], ui, Len(JsonDump(tk.server_manifest)))
    ELSE Result([tk EXCEPT !.pc = "streaming",
                           !.total = outcome.length,
                           !.downloaded = 0,
                           !.content = outcome.content, !.got = 0,
                           !.opened = @ \cup {tk.to_download[tk.i]}],
                mf, [dir EXCEPT ![tk.to_download[tk.i]] = FileWith(<<>>)], ui, "running")

\* Variant: launch_client() sits in a finally block around the downloads
\* and runs although the request failed.
AfterResponse_LaunchAnyway(tk, outcome) ==
    LET rel_path == tk.to_download[tk.i]
    IN  IF outcome.kind = "fail"
        THEN IF dir[CLIENT_EXE].exists
             THEN Result([tk EXCEPT !.download_failed = TRUE, !.pc = "launched"],
                         mf, dir, ui, "launched")
             ELSE Raise([tk EXCEPT !.download_failed = TRUE], ui, "download_exception")
        ELSE Result([tk EXCEPT !.pc = "streaming",
                               !.total = outcome.length,
                               !.downloaded = 0,
                               !.content = outcome.content, !.got = 0,
                               !.opened = @ \cup {rel_path}],
                    mf, [dir EXCEPT ![rel_path] = FileWith(<<>>)], ui, "running")

\* Variant: the length is read with resp.headers["Content-Length"], which
\* raises KeyError on an answer without the header.
AfterResponse_RequiresLength(tk, outcome) ==
    LET rel_path == tk.to_download[tk.i]
    IN  IF outcome.kind = "fail"
        THEN Raise([tk EXCEPT !.download_failed = TRUE], ui, "download_exception")
        ELSE IF outcome.length = 0 THEN Raise(tk, ui, "download_exception")
        ELSE Result([tk EXCEPT !.pc = "streaming",
                               !.total = outcome.length,
                               !.downloaded = 0,
                               !.content = outcome.content, !.got = 0,
                               !.opened = @ \cup {rel_path}],
                    mf, [dir EXCEPT ![rel_path] = FileWith(<<>>)], ui, "running")

\* Variant: download_file also removes the local files the remote manifest
\* does not list.
AfterResponse_Prunes(tk, outcome) ==
    LET rel_path == tk.to_download[tk.i]
    IN  IF outcome.kind = "fail"
        THEN Raise([tk EXCEPT !.download_failed = TRUE], ui, "download_exception")
        ELSE Result([tk EXCEPT !.pc = "streaming",
                               !.total = outcome.length,
                               !.downloaded = 0,
                               !.content = outcome.content, !.got = 0,
                               !.opened = @ \cup {rel_path}],
                    mf,
                    [q \in PathSet |->
                        IF q = rel_path THEN FileWith(<<>>)
                        ELSE IF FilesGet(tk.server_manifest.files, q) = -1 THEN Absent
                        ELSE dir[q]],
                    ui, "running")

\* Variant: a failed request is skipped (try/except: continue) and the loop
\* goes on with the next path.
AfterResponse_SkipFailed(tk, outcome) ==
    IF outcome.kind = "fail"
    THEN IF tk.i < Len(tk.to_download)
         THEN RequestFile([tk EXCEPT !.download_failed = TRUE], ui, tk.i + 1)
         ELSE Persist([tk EXCEPT !.download_failed = TRUE], ui,
                      Len(JsonDump(tk.server_manifest)))
    ELSE Result([tk EXCEPT !.pc = "streaming",
                           !.total = outcome.length,
                           !.downloaded = 0,
                           !.content = outcome.content, !.got = 0,
                           !.opened = @ \cup {tk.to_download[tk.i]}],
                mf, [dir EXCEPT ![tk.to_download[tk.i]] = FileWith(<<>>)], ui, "running")

\* An exception of download_file leaves `async with aiohttp.ClientSession()`
\* in download_missing_files, whose exit awaits session.close(): the
\* coroutine is suspended there (waits) or the exception leaves
\* check_for_update at once.  d is the directory once the file, if one was
\* open, is closed.
Failed(tk, d, waits) ==
    LET tk1 == [tk EXCEPT !.download_failed = TRUE, !.buffered = 0]
    IN  IF waits THEN Result([tk1 EXCEPT !.pc = "closing_session"], mf, d, ui, "running")
        ELSE LET r == Raise(tk1, ui, "download_exception") IN [r EXCEPT !.dir = d]

\* download_file from the answer to session.get(url) to the first chunk
\* read: raise_for_status(), total = int(resp.headers.get("Content-Length",
\* 0)), open(dest_path, "wb").  total is what the header says, whatever the
\* number of bytes the chunk loop will receive.
AfterResponse(tk, outcome) ==
    LET rel_path == tk.to_download[tk.i]
    IN  IF outcome.kind = "fail"
        THEN Failed(tk, dir, outcome.waits)
        ELSE Result([tk EXCEPT !.pc = "streaming",
                               !.total = outcome.length,
                               !.downloaded = 0,
                               !.content = outcome.content, !.got = 0,
                               !.opened = @ \cup {rel_path}],
                    mf, [dir EXCEPT ![rel_path] = FileWith(<<>>)], ui, "running")

\* The connection drops while download_file waits for the body: the
\* exception leaves through `with open(...)`, which closes the file, and
\* through download_missing_files and check_for_update.  The session holds
\* no connection any more, so its close() has nothing to wait for.
Dropped(tk) == Failed(tk, CloseFile(dir, tk), FALSE)

\* The chunk loop finds the end of the body: the file is closed, the
\* response released, and download_missing_files goes to its next file or,
\* after the last one, leaves `async with aiohttp.ClientSession()`, whose
\* exit awaits session.close(): the coroutine is suspended there (waits)
\* or check_for_update goes on up to its next await.
EndOfBody(tk, w, d, waits, cut) ==
    LET d2 == CloseFile(d, tk)
        tk1 == [tk EXCEPT !.buffered = 0]
    IN  IF tk.i < Len(tk.to_download)
        THEN LET r == RequestFile(tk1, w, tk.i + 1) IN [r EXCEPT !.dir = d2]
        ELSE IF waits THEN Result([tk1 EXCEPT !.pc = "closing_session"], mf, d2, w, "running")
        ELSE LET r == Persist(tk1, w, cut) IN [r EXCEPT !.dir = d2]

\* session.close() is over: the pending exception of a failed download
\* leaves check_for_update, or check_for_update goes on to the save.
AfterClose(tk, cut) ==
    IF tk.download_failed THEN Raise(tk, ui, "download_exception")
    ELSE Persist(tk, ui, cut)

\* download_file's chunk loop for one chunk: f.write(chunk), downloaded,
\* the progress callback.  arrived = FALSE is the connection dropping.
\* kept is the number of chunks in the write buffer after f.write: one
\* more than before (the chunk fits the space left), 1 (it does not: the
\* buffer is written out first and the chunk is held) or 0 (the chunk is
\* larger than the buffer and written through after it).  eof tells, for
\* the last chunk, whether the end of the body is already known, so that
\* the next read returns without suspending; if not, the coroutine is
\* suspended once more in the chunk loop.  waits is as in EndOfBody.
AfterChunk(tk, arrived, kept, eof, waits, cut) ==
    LET rel_path == tk.to_download[tk.i]
        total_files == Len(tk.to_download)
        chunk == tk.content[tk.got + 1]
        downloaded == tk.downloaded + ChunkBytes(chunk)
        d2 == IF kept <= tk.buffered
              THEN [dir EXCEPT ![rel_path] =
                       FileWith(Flush(@.data, tk.content,
                                      tk.got + 1 - tk.buffered, tk.got + 1 - kept))]
              ELSE dir
        percent == OverallPercent(tk.i, FilePercent(downloaded, tk.total), total_files)
        w2 == IF tk.total # 0
              THEN [setValue(ui, percent) EXCEPT
                       !.label = Label("Telechargement des fichiers...\n{file}", rel_path, 0)]
              ELSE ui
        tk2 == [tk EXCEPT !.downloaded = downloaded, !.got = @ + 1,
                          !.buffered = kept,
                          !.events = IF tk.total # 0 THEN Append(@, percent) ELSE @]
    IN  IF ~arrived THEN Dropped(tk)
        ELSE IF tk.got + 1 < Len(tk.content) \/ ~eof THEN Result(tk2, mf, d2, w2, "running")
        ELSE EndOfBody(tk2, w2, d2, waits, cut)

\* Step 5 after the sleep: launch_client() raises FileNotFoundError when
\* CLIENT_EXE does not exist, else subprocess.Popen starts it or raises
\* OSError (started = FALSE: the file is no program the platform can run,
\* is not executable, or is open for writing); then self.close().
AfterSleep(tk, started) ==
    IF ~dir[CLIENT_EXE].exists \/ ~started THEN Raise(tk, ui, "launch_exception")
    ELSE Result([tk EXCEPT !.pc = "launched"], mf, dir, ui, "launched")

\* The places inside the text of manifest m at which a stop of the process
\* cuts a save short: open(MANIFEST_LOCAL, "w") has emptied the file, and
\* what json.dump wrote so far is still in the buffer of the file object (a
\* manifest of a few files is far smaller than that buffer).
PartialCuts(m) == {0}

\* A process that ended has no widgets and no tasks; the next start builds
\* them anew.
NoTasks == [t \in Tasks |-> IdleTask]

\* The state after task t ran a piece with result r.  A write of the
\* manifest file is noted by every other task; when the process stops, its
\* tasks and widgets go with it.  A process that quits after the launch
\* leaves one of ExitDirs; one stopped inside the save flushes nothing.
Apply(t, r) ==
    /\ mf' = r.mf
    /\ dir' \in IF r.proc = "launched"
               THEN ExitDirs(r.dir, [task EXCEPT ![t] = r.tk])
               ELSE {r.dir}
    /\ proc' = r.proc
    /\ ui' = IF r.proc = "running" THEN r.ui ELSE InitUi
    /\ task' = IF r.proc # "running" THEN NoTasks
               ELSE [u \in Tasks |->
                       IF u = t THEN r.tk
                       ELSE [task[u] EXCEPT
                               !.foreign_write =
                                   @ \/ (task[u].pc # "idle" /\ r.tk.writes > task[t].writes)]]
    /\ UNCHANGED <<server, runs, clicks>>

\* Pass t is the only pass of this run of the launcher so far (of a retry,
\* the only one since the pass it replaced ended).
Alone(t) == \A u \in Tasks \ {t} : task[u].pc = "idle"

(***************************************************************************)
(* Actions.                                                                *)
(***************************************************************************)
\* The event loop starts a scheduled check_for_update: error("...", False)
\* and the manifest request.  The directory the pass starts from is noted
\* for a pass that starts alone; no other pass ever runs alone.
BeginPass(t) ==
    /\ proc = "running"
    /\ task[t].pc = "scheduled"
    /\ ui' = error(ui, "Verification des fichiers...", FALSE)
    /\ task' = [task EXCEPT ![t] = [@ EXCEPT !.pc = "fetching", !.mf0 = mf,
                                              !.dir0 = IF Alone(t) THEN dir
                                                       ELSE IdleTask.dir0]]
    /\ UNCHANGED <<proc, mf, dir, server, runs, clicks>>

\* The manifest request completes.
FetchReturn(t) ==
    /\ proc = "running"
    /\ task[t].pc = "fetching"
    /\ \E outcome \in FetchOutcomes(server) :
         LET whole == AfterFetch(task[t], outcome, Len(JsonDump(outcome.body)))
         IN  \/ Apply(t, whole)
             \/ /\ whole.tk.pc = "sleeping"
                /\ \E cut \in PartialCuts(outcome.body) :
                      Apply(t, AfterFetch(task[t], outcome, cut))

\* The file request is answered.
ResponseHeaders(t) ==
    /\ proc = "running"
    /\ task[t].pc = "requesting"
    /\ \E outcome \in DownloadOutcomes(server, task[t].to_download[task[t].i]) : Apply(t, AfterResponse(task[t], outcome))

\* A chunk of the file arrives, or the connection drops.  What f.write
\* does with the chunk depends on its size and on the buffer size open()
\* chose; it makes no difference when the file is closed in the same step.
Chunk(t) ==
    /\ proc = "running"
    /\ task[t].pc = "streaming"
    /\ task[t].got < Len(task[t].content)
    /\ \E arrived \in BOOLEAN :
       \E eof \in IF arrived /\ task[t].got + 1 = Len(task[t].content)
                  THEN BOOLEAN ELSE {FALSE} :
       \E kept \in IF arrived /\ ~eof THEN {0, 1, task[t].buffered + 1} ELSE {0} :
       \E waits \in IF eof /\ task[t].i = Len(task[t].to_download)
                    THEN BOOLEAN ELSE {FALSE} :
         LET whole == AfterChunk(task[t], arrived, kept, eof, waits,
                                 Len(JsonDump(task[t].server_manifest)))
         IN  \/ Apply(t, whole)
             \/ /\ whole.tk.pc = "sleeping"
                /\ \E cut \in PartialCuts(task[t].server_manifest) :
                      Apply(t, AfterChunk(task[t], arrived, kept, eof, waits, cut))

\* The read after the last chunk returns: the end of the body, or the
\* connection drops first.
EndOfStream(t) ==
    /\ proc = "running"
    /\ task[t].pc = "streaming"
    /\ task[t].got = Len(task[t].content)
    /\ \E arrived \in BOOLEAN :
       \E waits \in IF arrived /\ task[t].i = Len(task[t].to_download)
                    THEN BOOLEAN ELSE {FALSE} :
         LET whole == EndOfBody(task[t], ui, dir, waits,
                                Len(JsonDump(task[t].server_manifest)))
         IN  IF ~arrived THEN Apply(t, Dropped(task[t]))
             ELSE \/ Apply(t, whole)
                  \/ /\ whole.tk.pc = "sleeping"
                     /\ \E cut \in PartialCuts(task[t].server_manifest) :
                           Apply(t, EndOfBody(task[t], ui, dir, waits, cut))

\* session.close() returns to a coroutine suspended in it.
SessionClosed(t) ==
    /\ proc = "running"
    /\ task[t].pc = "closing_session"
    /\ LET whole == AfterClose(task[t], Len(JsonDump(task[t].server_manifest)))
       IN  \/ Apply(t, whole)
           \/ /\ whole.tk.pc = "sleeping"
              /\ \E cut \in PartialCuts(task[t].server_manifest) :
                    Apply(t, AfterClose(task[t], cut))

\* The sleep before the launch is over.
Launch(t) ==
    /\ proc = "running"
    /\ task[t].pc = "sleeping"
    /\ \E started \in BOOLEAN : Apply(t, AfterSleep(task[t], started))

\* button_reload.clicked: asyncio.create_task(self.check_for_update()).
\* The button can be clicked while it is visible.
ClickReload ==
    /\ proc = "running"
    /\ ui.reload_visible
    /\ clicks < MaxClicks
    /\ clicks' = clicks + 1
    /\ \E t \in Tasks :
         /\ task[t].pc \notin Live
         /\ \A u \in Tasks : u < t => task[u].pc \in Live
         /\ task' = [task EXCEPT ![t] = [IdleTask EXCEPT !.pc = "scheduled"]]
    /\ UNCHANGED <<proc, mf, dir, ui, server, runs>>

\* button_close.clicked: self.close(); the application quits with its last
\* window and every task still alive is dropped where it awaits.
ClickClose ==
    /\ proc = "running"
    /\ proc' = "closed"
    /\ task' = NoTasks
    /\ ui' = InitUi
    /\ dir' \in ExitDirs(dir, task)
    /\ UNCHANGED <<mf, server, runs, clicks>>

\* The launcher is started again on the same directory, against whatever
\* the server side holds by then: main() builds a new SplashScreen.
Relaunch ==
    /\ proc # "running"
    /\ runs < MaxRuns
    /\ runs' = runs + 1
    /\ proc' = "running"
    /\ server' \in Servers
    /\ ui' = InitUi
    /\ task' = [t \in Tasks |-> IF t = 1 THEN [IdleTask EXCEPT !.pc = "scheduled"] ELSE IdleTask]
    /\ UNCHANGED <<mf, dir, clicks>>

Next ==
    \/ \E t \in Tasks : BeginPass(t)
    \/ \E t \in Tasks : FetchReturn(t)
    \/ \E t \in Tasks : ResponseHeaders(t)
    \/ \E t \in Tasks : Chunk(t)
    \/ \E t \in Tasks : EndOfStream(t)
    \/ \E t \in Tasks : SessionClosed(t)
    \/ \E t \in Tasks : Launch(t)
    \/ ClickReload
    \/ ClickClose
    \/ Relaunch

Spec == Init /\ [][Next]_vars

(***************************************************************************)
(* The manifest store on its own: save_local_manifest and                  *)
(* load_local_manifest called by one caller (slot 1) on manifests and      *)
(* manifest files of every shape, in any order.  The caller's record keeps *)
(* the manifest it saved last (server_manifest), the file that save found  *)
(* (mf0) and the value its last load returned (local_manifest).            *)
(***************************************************************************)
StoreItems ==
    {Item(p, h) : p \in ManifestPaths, h \in {HashV1, HashV2}}
    \cup {Item(StrayPath, HashV1)}

\* Every files dict over the paths, in every insertion order.
StoreFilesDicts ==
    UNION { { f \in [1..n -> StoreItems] :
                \A a, b \in 1..n : a # b => f[a].path # f[b].path }
            : n \in 0..Len(AllPaths) }

\* The manifests handed to save_local_manifest: a bare {"files": ...} and
\* the remote shape with "download_url".
StoreManifests ==
    {Dict({"files"}, "", "", f) : f \in StoreFilesDicts}
    \cup {RemoteManifest(f) : f \in StoreFilesDicts}

\* What manifest_local.json may hold before: nothing, an empty file, a
\* saved manifest, or a manifest whose end is missing.
StoreFilesBefore ==
    {NoFile, FileOf(<<>>)}
    \cup {FileOf(JsonDump(m)) : m \in StoreManifests}
    \cup {CutShort(FileOf(JsonDump(RemoteManifest(<<Item(CLIENT_EXE, HashV1)>>))), 4)}

StoreInit ==
    /\ proc = "running"
    /\ mf \in StoreFilesBefore
    /\ dir = [p \in PathSet |-> Absent]
    /\ ui = InitUi
    /\ task = NoTasks
    /\ server = Server(<<>>, ContentV1, FALSE, FALSE)
    /\ runs = 1
    /\ clicks = 0

\* save_local_manifest(m), run to its end.
SaveManifest ==
    /\ \E m \in StoreManifests :
         /\ mf' = save_local_manifest(m)
         /\ task' = [task EXCEPT ![1] = [IdleTask EXCEPT !.pc = "saved", !.server_manifest = m,
                                                         !.mf0 = mf, !.writes = 1]]
    /\ UNCHANGED <<proc, dir, ui, server, runs, clicks>>

\* load_local_manifest(): the value returned, or the exception.
LoadManifest ==
    /\ task[1].pc \in {"idle", "saved"}
    /\ LET ld == load_local_manifest(mf)
       IN  task' = [task EXCEPT ![1] = [@ EXCEPT !.pc = IF ld.raised THEN "crashed" ELSE "loaded",
                                                 !.end = IF ld.raised THEN "load_exception" ELSE "",
                                                 !.local_manifest = ld.value,
                                                 !.reads = 1]]
    /\ UNCHANGED <<proc, mf, dir, ui, server, runs, clicks>>

StoreNext == SaveManifest \/ LoadManifest

StoreSpec == StoreInit /\ [][StoreNext]_vars

(***************************************************************************)
(* The diff on its own: get_missing_or_corrupted_files called by two       *)
(* callers (the two slots) on the same directory and the same remote       *)
(* manifest, each with a local manifest of its own.                        *)
(***************************************************************************)
\* Directories: each path of the remote manifests missing, holding one of
\* the two contents of the client, or holding the first chunk only (the
\* whole data file, the client cut short).
DiffFiles == {Absent, FileWith(ContentV1), FileWith(ContentV2), FileWith(<<1>>)}

DiffDirs ==
    { [q \in PathSet |-> IF q = CLIENT_EXE THEN e ELSE IF q = DataPath THEN d ELSE Absent]
      : e \in DiffFiles, d \in DiffFiles }

\* What fetch_manifest may have returned: a manifest, or an error value
\* that check_for_update lets through.
DiffServerManifests == ServerManifests \cup {ErrDict("500, message=...")}

\* Local manifests: the default, ones that agree with one of the remote
\* manifests, one whose digests are those of no such file, one about
\* another path.
DiffLocalManifests ==
    { DefaultManifest,
      RemoteManifest(<<Item(CLIENT_EXE, HashV1), Item(DataPath, HashData)>>),
      RemoteManifest(<<Item(CLIENT_EXE, HashV2)>>),
      Dict({"files"}, "", "", <<Item(CLIENT_EXE, HashV2), Item(DataPath, HashV2)>>),
      Dict({"files"}, "", "", <<Item(StrayPath, HashV1)>>) }

DiffInit ==
    /\ proc = "running"
    /\ mf = NoFile
    /\ dir \in DiffDirs
    /\ ui = InitUi
    /\ \E sm \in DiffServerManifests :
         \E lm \in [Tasks -> DiffLocalManifests] :
            task = [t \in Tasks |-> [IdleTask EXCEPT !.pc = "loaded",
                                                     !.server_manifest = sm,
                                                     !.local_manifest = lm[t]]]
    /\ server = Server(<<>>, ContentV1, FALSE, FALSE)
    /\ runs = 1
    /\ clicks = 0

\* get_missing_or_corrupted_files(Path.cwd(), server_manifest,
\* local_manifest) by caller t: the list returned, or the exception.
DiffCall(t) ==
    /\ task[t].pc = "loaded"
    /\ LET df == get_missing_or_corrupted_files(dir, task[t].server_manifest,
                                                task[t].local_manifest)
       IN  task' = [task EXCEPT ![t] = [@ EXCEPT !.pc = IF df.raised THEN "crashed" ELSE "diffed",
                                                 !.end = IF df.raised THEN "diff_exception" ELSE "",
                                                 !.to_download = df.value,
                                                 !.hashed = df.hashed,
                                                 !.diffed = ~df.raised]]
    /\ UNCHANGED <<proc, mf, dir, ui, server, runs, clicks>>

DiffNext == \E t \in Tasks : DiffCall(t)

DiffSpec == DiffInit /\ [][DiffNext]_vars

(***************************************************************************)
(* Properties.                                                             *)
(***************************************************************************)
\* The SHA-256 digest of a content.
Digest(data) == Sha256Feed(0, data)

\* The manifest a manifest file holds, if it holds one.
Readable(file) == file.exists /\ JsonLoad(file.text).ok
StoredFiles(file) == JsonLoad(file.text).d.files

\* C1: a pass in which a file download failed has not run
\* save_local_manifest, and unless another pass wrote it meanwhile the
\* manifest file is what it was when the pass started, wherever in the batch
\* the failing file stood.
C1_FailedDownloadLeavesManifest ==
    \A t \in Tasks :
        task[t].download_failed =>
            /\ task[t].writes = 0
            /\ ~task[t].foreign_write => mf = task[t].mf0

\* A pass stopped by the connection dropping in the middle of the second
\* file of its batch.
C1_Witness ==
    \E t \in Tasks :
        /\ task[t].download_failed
        /\ Len(task[t].to_download) = 2 /\ task[t].i = 2 /\ task[t].got = 1
        /\ ~task[t].foreign_write
        /\ task[t].mf0.exists

\* C2: once a file download of a pass has failed, the pass is in the Error
\* state, with the retry button shown, as after a manifest fetch that
\* failed.
C2_FailedDownloadOffersRetry ==
    \A t \in Tasks :
        (task[t].download_failed /\ \A u \in Tasks : task[u].pc \notin Live)
            => /\ task[t].pc = "error"
               /\ ui.reload_visible

\* C3: a pass whose manifest fetch got a non-2xx answer is in the Error
\* state with the retry button shown, and has done no diff, no download and
\* no manifest write.
C3_HttpErrorOffersRetry ==
    \A t \in Tasks :
        (task[t].fetched = "http" /\ \A u \in Tasks : task[u].pc \notin Live)
            => /\ task[t].pc = "error"
               /\ ui.reload_visible
               /\ ~task[t].diffed
               /\ task[t].requested = <<>>
               /\ task[t].writes = 0

\* C4: the step in which a manifest fetch fails with a DNS error ends the
\* pass in the Error state with the retry button visible, having neither
\* read nor written the manifest file, hashed or written no local file and
\* requested no download; from then on the pass does nothing (no launch, no
\* fetch), and a new pass starts only by a click on the retry button.
C4_DnsErrorStopsThePass ==
    [][\A t \in Tasks :
          /\ (task[t].pc = "fetching" /\ task'[t].fetched = "dns") =>
                /\ task'[t].pc = "error"
                /\ ui'.reload_visible
                /\ task'[t].reads = 0 /\ task'[t].writes = 0
                /\ task'[t].hashed = {} /\ task'[t].opened = {}
                /\ task'[t].requested = <<>>
                /\ mf' = mf /\ dir' = dir
          /\ (task[t].pc = "error" /\ task[t].fetched = "dns") =>
                \/ task'[t].pc = "error" /\ task'[t].requested = <<>> /\ task'[t].writes = 0
                \/ clicks' = clicks + 1
                \/ proc' # "running"
          /\ (proc = "running" /\ proc' = "running"
              /\ task[t].pc # "scheduled" /\ task'[t].pc = "scheduled") =>
                clicks' = clicks + 1
      ]_vars

\* A pass stopped by a DNS error, the retry button showing, over an
\* existing manifest file.
C4_Witness ==
    \E t \in Tasks :
        /\ task[t].end = "dns_error"
        /\ task[t].pc = "error"
        /\ ui.reload_visible
        /\ mf.exists

\* C5: a manifest fetch that fails in the transport, other than by DNS or a
\* non-2xx answer, gives the pass an error value and does not end it with an
\* exception.
C5_TransportFailureIsAnErrorValue ==
    \A t \in Tasks :
        task[t].fetched = "transport" =>
            /\ task[t].end # "fetch_exception"
            /\ HasKey(task[t].server_manifest, "err")

\* The paths of a remote files dict, in its order, whose local file is
\* missing or has another digest than the remote one.
MissingOrCorrupted(d, files) ==
    SelectSeq(FilePaths(files),
              LAMBDA p : ~d[p].exists \/ Digest(d[p].data) # FilesGet(files, p))

\* C6: the diff a pass computes is exactly the remote manifest's paths whose
\* local file is missing or whose content digest differs from the remote
\* digest, in the remote manifest's order, each once, and none whose file
\* exists with the remote digest.
C6_DiffIsMissingOrCorrupted ==
    [][\A t \in Tasks :
          (~task[t].diffed /\ task'[t].diffed) =>
              LET got == task'[t].to_download
                  files == task'[t].server_manifest.files
              IN  /\ got = MissingOrCorrupted(dir, files)
                  /\ \A m, n \in 1..Len(got) : m # n => got[m] # got[n]
                  /\ \A n \in 1..Len(files) :
                        (dir[files[n].path].exists
                         /\ Digest(dir[files[n].path].data) = files[n].hash)
                            => \A m \in 1..Len(got) : got[m] # files[n].path
      ]_vars

\* A diff over a manifest of two files that returns the second and leaves
\* out the first, whose file matches.
C6_Witness ==
    \E t \in Tasks :
        /\ task[t].diffed
        /\ Len(task[t].server_manifest.files) = 2
        /\ task[t].to_download = <<task[t].server_manifest.files[2].path>>
        /\ task[t].hashed = ManifestPaths

\* Every file of a remote files dict is there with the remote digest.
AllMatch(d, files) ==
    \A n \in 1..Len(files) :
        d[files[n].path].exists /\ Digest(d[files[n].path].data) = files[n].hash

\* C7: when every file of the remote manifest is there with a matching
\* digest, the pass goes from its diff, which is empty, to the save in the
\* same step: no download is requested and no local file is written.
C7_NothingToDownloadGoesToPersist ==
    [][\A t \in Tasks :
          (task[t].pc = "fetching" /\ task'[t].diffed
           /\ AllMatch(dir, task'[t].server_manifest.files)) =>
              /\ task'[t].to_download = <<>>
              /\ task'[t].pc = "sleeping"
              /\ task'[t].writes = 1
              /\ task'[t].requested = <<>>
              /\ task'[t].opened = {}
              /\ dir' = dir
      ]_vars

\* A pass over a manifest of two files, both matching, that has saved the
\* manifest without a request.
C7_Witness ==
    \E t \in Tasks :
        /\ task[t].diffed
        /\ Len(task[t].server_manifest.files) = 2
        /\ task[t].to_download = <<>>
        /\ task[t].requested = <<>>
        /\ task[t].pc = "sleeping"
        /\ task[t].writes = 1

\* C8: a pass that has reached Done (the save is over, the launch is next)
\* has left a manifest file whose files mapping is the mapping of the remote
\* manifest it fetched, nothing more and nothing else, unless another pass
\* wrote the file since.
C8_DoneManifestIsTheRemoteOne ==
    \A t \in Tasks :
        (task[t].pc = "sleeping" /\ ~task[t].foreign_write) =>
            /\ Readable(mf)
            /\ SameMapping(StoredFiles(mf), task[t].server_manifest.files)

\* A pass at Done whose remote manifest lacks a path the manifest file had
\* when the pass started.
C8_Witness ==
    \E t \in Tasks :
        /\ task[t].pc = "sleeping"
        /\ ~task[t].foreign_write
        /\ FilesGet(task[t].local_manifest.files, DataPath) # -1
        /\ FilesGet(task[t].server_manifest.files, DataPath) = -1
        /\ task[t].server_manifest.files # <<>>

\* C9: a pass that fetched the remote manifest and read a manifest file
\* holding invalid JSON got the default empty manifest from
\* load_local_manifest and was not ended by it.
C9_CorruptManifestLoadsAsDefault ==
    \A t \in Tasks :
        (task[t].fetched = "json" /\ task[t].reads = 1 /\ ~task[t].foreign_write
         /\ task[t].mf0.exists /\ ~JsonLoad(task[t].mf0.text).ok) =>
            /\ task[t].end # "load_exception"
            /\ task[t].local_manifest = DefaultManifest

\* C10: when the process has stopped inside a save, the manifest file is
\* a complete manifest (or absent as before), never empty or truncated.
C10_SaveIsCrashSafe ==
    proc = "killed" => (~mf.exists \/ JsonLoad(mf.text).ok)

\* C11: a load that follows a save returns, without an exception, a
\* manifest whose files mapping is the saved manifest's (same paths, same
\* digests), whatever the manifest file held before the save.
C11_SaveThenLoadRoundTrip ==
    (task[1].pc \in {"loaded", "crashed"} /\ task[1].writes = 1) =>
        /\ task[1].pc = "loaded"
        /\ HasKey(task[1].local_manifest, "files")
        /\ SameMapping(task[1].local_manifest.files, task[1].server_manifest.files)

\* A load after the save of a manifest of two files given out of sorted
\* order, over a file that held a manifest with a path the saved one lacks.
C11_Witness ==
    /\ task[1].pc = "loaded" /\ task[1].writes = 1
    /\ FilePaths(task[1].server_manifest.files) = <<DataPath, CLIENT_EXE>>
    /\ Readable(task[1].mf0)
    /\ FilesGet(StoredFiles(task[1].mf0), StrayPath) # -1

\* The percentages a pass handed to the progress callback so far: its
\* events without the setValue(100) that follows the save.
Callbacks(tk) ==
    IF tk.writes > 0 /\ tk.end # "killed_in_save"
    THEN SubSeq(tk.events, 1, Len(tk.events) - 1)
    ELSE tk.events

\* C12: the overall percentages a pass's download_missing_files call passed
\* to the progress callback never decrease, over all chunks and all files of
\* the batch, also when a file of the batch declares no Content-Length.
\* It fails for a batch whose first file arrives with more bytes than its
\* Content-Length announced: that file ends above its share of the batch
\* and the first chunk of the next file reports less.
C12_ProgressNeverDecreases ==
    \A t \in Tasks :
        LET cb == Callbacks(task[t])
        IN  \A a \in 1..(Len(cb) - 1) : cb[a] <= cb[a + 1]

\* The number of progress callbacks the downloads of a pass made so far:
\* one per chunk of each file sent with a Content-Length.
RECURSIVE ChunksReported(_, _)
ChunksReported(tk, k) ==
    IF k = 0 THEN 0
    ELSE ChunksReported(tk, k - 1)
         + (IF server.length[tk.to_download[k]] # 0
            THEN Len(server.content[tk.to_download[k]]) ELSE 0)

CallbacksDue(tk) ==
    (IF tk.i > 1 THEN ChunksReported(tk, tk.i - 1) ELSE 0)
    + (IF tk.total # 0 THEN tk.got ELSE 0)

\* C13: a pass starting its manifest check puts its label on the splash
\* screen with the progress bar shown; a pass at Done has saved the manifest
\* and then reported 100 once, after its per-chunk reports, in the step of
\* the save; a pass still under way or ended in error has made no report
\* besides the per-chunk ones, and no save.
C13_CompletionReportedOnceAfterSave ==
    [][\A t \in Tasks :
          LET tk == task'[t]
              n == Len(tk.events)
          IN  /\ (task[t].pc = "scheduled" /\ tk.pc = "fetching") =>
                    /\ ui'.label = Label("Verification des fichiers...", "", 0)
                    /\ ui'.progress_visible
              /\ (tk.pc = "sleeping" \/ tk.end = "launch_exception") =>
                    /\ tk.writes = 1
                    /\ n = CallbacksDue(tk) + 1
                    /\ tk.events[n] = 100
              /\ (tk.pc = "sleeping" /\ task[t].pc # "sleeping") =>
                    /\ ui'.progress_value = 100
                    /\ mf' = FileOf(JsonDump(tk.server_manifest))
              /\ (tk.pc \in {"fetching", "requesting", "streaming", "closing_session", "error"}
                  \/ (tk.pc = "crashed" /\ tk.end # "launch_exception")) =>
                    /\ tk.writes = 0
                    /\ n = CallbacksDue(tk)
      ]_vars

\* A pass at Done after a batch of two files whose last chunk had already
\* been reported as 100: the completion report is its fourth event.
C13_Witness ==
    \E t \in Tasks :
        /\ task[t].pc = "sleeping"
        /\ Len(task[t].to_download) = 2
        /\ Len(task[t].events) = 4
        /\ task[t].events[3] = 100 /\ task[t].events[4] = 100
        /\ task[t].writes = 1

\* C14: at most one pass is in flight at any time: the retry button cannot
\* start a pass while another one is between its start and Error or Done.
C14_AtMostOnePassInFlight ==
    Cardinality({t \in Tasks : task[t].pc \in InFlight}) <= 1

\* C15: a pass that runs alone on the manifest file a pass at Done left and
\* on local files that all hold the content the remote manifest declares,
\* against that same remote manifest, computes an empty diff, requests and
\* writes no file, and leaves the manifest file's content as it was.
C15_SecondPassChangesNothing ==
    \A t \in Tasks :
        (task[t].diffed /\ Alone(t)
         /\ AllMatch(task[t].dir0, task[t].server_manifest.files)
         /\ task[t].mf0 = FileOf(JsonDump(task[t].server_manifest))) =>
            /\ task[t].to_download = <<>>
            /\ task[t].requested = <<>> /\ task[t].opened = {}
            /\ dir = task[t].dir0
            /\ mf = task[t].mf0
            /\ task[t].pc \in {"sleeping", "crashed"}

\* In the second run of the launcher, a pass at Done over the manifest file
\* that the pass of the first run saved after downloading the second
\* version of the client.
C15_Witness ==
    \E t \in Tasks :
        /\ runs = 2 /\ Alone(t)
        /\ task[t].pc = "sleeping" /\ task[t].writes = 1
        /\ task[t].server_manifest.files = <<Item(CLIENT_EXE, HashV2)>>
        /\ task[t].mf0 = FileOf(JsonDump(task[t].server_manifest))
        /\ task[t].dir0[CLIENT_EXE] = FileWith(ContentV2)
        /\ task[t].to_download = <<>>

\* C16: the requests of a pass are the paths of its diff in order, one per
\* path, as many as the loop has reached; a file is opened only once
\* requested; a pass whose download failed has stopped with the failing
\* request as its last; and in a pass running alone every file before the
\* one being downloaded holds the whole content that was sent.
C16_DownloadsOneByOneInDiffOrder ==
    \A t \in Tasks :
        LET tk == task[t]
            r == tk.requested
        IN  /\ Len(r) = tk.i
            /\ Len(r) <= Len(tk.to_download)
            /\ r = SubSeq(tk.to_download, 1, Len(r))
            /\ tk.opened \subseteq {r[k] : k \in 1..Len(r)}
            /\ tk.download_failed => tk.pc \in {"closing_session", "crashed"}
            /\ Alone(t) =>
                  \A k \in 1..(Len(r) - 1) : dir[r[k]] = FileWith(server.content[r[k]])

\* A pass of two files that runs alone and is half way through the second,
\* the first being complete.
C16_Witness ==
    \E t \in Tasks :
        /\ Alone(t)
        /\ Len(task[t].to_download) = 2
        /\ task[t].requested = task[t].to_download
        /\ task[t].pc = "streaming" /\ task[t].got = 1
        /\ dir[task[t].to_download[1]] = FileWith(ContentData)
        /\ task[t].dir0[task[t].to_download[1]] = Absent

\* C17: a local file changes only in a step of a pass that is downloading
\* it, as the current path of its diff; and a diff holds only paths the
\* remote manifest lists whose file, at the time of the diff, is missing or
\* has another digest than the remote one.
C17_OnlyDiffFilesAreWritten ==
    [][/\ \A q \in PathSet :
             dir'[q] # dir[q] =>
                 \E t \in Tasks :
                     /\ task[t].pc \in {"requesting", "streaming"}
                     /\ task[t].to_download[task[t].i] = q
       /\ \A t \in Tasks :
             (~task[t].diffed /\ task'[t].diffed) =>
                 \A k \in 1..Len(task'[t].to_download) :
                     LET q == task'[t].to_download[k]
                         remote == FilesGet(task'[t].server_manifest.files, q)
                     IN  /\ remote # -1
                         /\ ~dir[q].exists \/ Digest(dir[q].data) # remote
      ]_vars

\* A pass at Done that downloaded the client only, next to a file the
\* remote manifest does not list and a stray file, both as they were.
C17_Witness ==
    \E t \in Tasks :
        /\ task[t].pc = "sleeping"
        /\ task[t].opened = {CLIENT_EXE}
        /\ FilesGet(task[t].server_manifest.files, DataPath) = -1
        /\ dir[CLIENT_EXE] = FileWith(ContentV2)
        /\ dir[DataPath] = FileWith(ContentData)
        /\ dir[StrayPath] = FileWith(ContentV2)

\* C18: a pass reads the manifest file at most once and writes it at most
\* once; a pass that wrote it had fetched the remote manifest, read the file
\* before (what it loaded is what the file held when the pass began),
\* computed its diff and completed every download of it; and while neither
\* it nor another pass has written, the file is what it was.
C18_OneReadThenOneWrite ==
    \A t \in Tasks :
        LET tk == task[t]
        IN  /\ tk.reads <= 1 /\ tk.writes <= 1
            /\ tk.writes = 1 =>
                  /\ tk.reads = 1
                  /\ tk.fetched = "json" /\ tk.diffed
                  /\ ~tk.download_failed
                  /\ tk.requested = tk.to_download
                  /\ tk.to_download # <<>> => tk.got = Len(tk.content)
                  /\ tk.pc = "sleeping" \/ tk.end = "launch_exception"
                  /\ ~tk.foreign_write =>
                        /\ mf = FileOf(JsonDump(tk.server_manifest))
                        /\ Readable(tk.mf0) => tk.local_manifest = JsonLoad(tk.mf0.text).d
                        /\ ~tk.mf0.exists => tk.local_manifest = DefaultManifest
            /\ (tk.pc \notin {"idle", "scheduled"} /\ tk.writes = 0 /\ ~tk.foreign_write) =>
                  mf = tk.mf0

\* A pass at Done that downloaded two files and replaced a manifest file
\* holding something else.
C18_Witness ==
    \E t \in Tasks :
        /\ task[t].pc = "sleeping"
        /\ task[t].reads = 1 /\ task[t].writes = 1
        /\ Len(task[t].requested) = 2
        /\ ~task[t].foreign_write
        /\ task[t].mf0.exists /\ mf # task[t].mf0

\* C19: two calls of get_missing_or_corrupted_files on the same directory
\* and the same remote manifest come out alike (the same list, or both an
\* exception), and hash the same files, whatever the two local manifests.
C19_DiffIgnoresLocalManifest ==
    \A t, u \in Tasks :
        (task[t].pc \in {"diffed", "crashed"} /\ task[u].pc \in {"diffed", "crashed"}) =>
            /\ task[t].pc = task[u].pc
            /\ task[t].to_download = task[u].to_download
            /\ task[t].hashed = task[u].hashed

\* Two diffs over the data file at the declared content and the client cut
\* short, one with the default local manifest and one with a local manifest
\* whose digests are those of neither file: both return the client only.
C19_Witness ==
    /\ task[1].pc = "diffed" /\ task[2].pc = "diffed"
    /\ task[1].local_manifest = DefaultManifest
    /\ FilesGet(task[2].local_manifest.files, CLIENT_EXE) = HashV2
    /\ dir[CLIENT_EXE] = FileWith(<<1>>)
    /\ dir[DataPath] = FileWith(ContentData)
    /\ task[1].to_download = <<CLIENT_EXE>>
    /\ task[2].to_download = <<CLIENT_EXE>>

\* C20: the percentage of every progress event is, in 0..100, the floor of
\* (i - 1 + filePercent / 100) / N * 100 for the file being downloaded, with
\* filePercent the floor of bytesReceived / totalBytes * 100; and once the
\* last file, sent with Content-Length, is complete the last percentage
\* reported by the downloads is 100.
C20_PercentIsTheExactFloor ==
    \A t \in Tasks :
        LET tk == task[t]
            n == Len(tk.events)
            N == Len(tk.to_download)
        IN  /\ (tk.pc = "streaming" /\ tk.total # 0 /\ tk.got >= 1) =>
                  LET filePercent == (tk.downloaded * 100) \div tk.total
                  IN  /\ tk.events[n] \in 0..100
                      /\ tk.events[n] = ((tk.i - 1) * 100 + filePercent) \div N
            /\ (tk.pc = "sleeping" /\ tk.total # 0) => tk.events[n - 1] = 100

\* C21: for a file the server sends without Content-Length, the answer is
\* taken as it is (only a failed request ends the pass there); every chunk
\* that arrives is taken by the file object (written at its place in the
\* file, or held in its write buffer) and reported to nobody (no event,
\* progress bar and label untouched); and the end of the body closes the
\* file, which then holds every chunk if no other pass touched it, and
\* makes the pass go on to the next path of the batch, or to the save after
\* the last path, at once or once the HTTP session is closed.
C21_NoLengthNoEventsButWritten ==
    [][\A t \in Tasks :
          LET tk == task[t]
              tk2 == task'[t]
              q == tk.to_download[tk.i]
          IN  /\ (tk.pc = "requesting" /\ server.length[q] = 0 /\ tk2.pc # "requesting"
                  /\ proc' = "running") =>
                    \/ tk2.download_failed
                    \/ tk2.pc = "streaming" /\ tk2.total = 0 /\ tk2.events = tk.events
              /\ (tk.pc = "streaming" /\ server.length[q] = 0 /\ proc' = "running"
                  /\ ~tk2.download_failed
                  /\ tk2.pc = "streaming" /\ tk2.got # tk.got) =>
                    /\ tk.total = 0
                    /\ tk2.got = tk.got + 1
                    /\ tk2.events = tk.events
                    /\ ui' = ui
                    /\ \/ tk2.buffered = tk.buffered + 1 /\ dir' = dir
                       \/ /\ tk2.buffered \in {0, 1}
                          /\ Len(dir'[q].data) >= tk2.got - tk2.buffered
                          /\ \A k \in (tk2.got - tk.buffered)..(tk2.got - tk2.buffered) :
                                dir'[q].data[k] = tk.content[k]
              /\ (tk.pc = "streaming" /\ server.length[q] = 0 /\ proc' = "running"
                  /\ ~tk2.download_failed
                  /\ tk2.pc # "streaming") =>
                    /\ tk.total = 0
                    /\ tk2.buffered = 0
                    /\ Alone(t) => dir'[q] = FileWith(tk.content)
                    /\ IF tk.i < Len(tk.to_download)
                       THEN /\ tk2.pc = "requesting" /\ tk2.i = tk.i + 1
                            /\ tk2.events = tk.events
                            /\ ui' = ui
                       ELSE \/ /\ tk2.pc = "sleeping"
                               /\ tk2.events = Append(tk.events, 100)
                            \/ /\ tk2.pc = "closing_session"
                               /\ tk2.events = tk.events
                               /\ ui' = ui /\ mf' = mf
              /\ (tk.pc = "closing_session" /\ ~tk.download_failed
                  /\ server.length[q] = 0 /\ proc' = "running"
                  /\ tk2.pc # "closing_session") =>
                    /\ tk2.pc = "sleeping"
                    /\ tk2.events = Append(tk.events, 100)
                    /\ dir' = dir
      ]_vars

\* A pass running alone that received the first file of its batch of two
\* without Content-Length, wrote it whole, reported nothing and has
\* requested the second.
C21_Witness ==
    \E t \in Tasks :
        /\ Alone(t)
        /\ task[t].to_download = <<DataPath, CLIENT_EXE>>
        /\ server.length[DataPath] = 0
        /\ task[t].pc = "requesting" /\ task[t].i = 2
        /\ task[t].events = <<>>
        /\ task[t].dir0[DataPath] = Absent
        /\ dir[DataPath] = FileWith(ContentData)

\* C22: the client is started only by a pass at Done: a pass that fetched
\* the remote manifest, computed its diff, requested every path of it and
\* received each to its end, saved the manifest file (which holds a
\* complete manifest) and met no failure; no other step starts it.
C22_LaunchOnlyAfterCompletion ==
    [][(proc = "running" /\ proc' = "launched") =>
          \E t \in Tasks :
              LET tk == task[t]
              IN  /\ tk.pc = "sleeping"
                  /\ tk.fetched = "json" /\ tk.diffed
                  /\ tk.requested = tk.to_download
                  /\ tk.to_download # <<>> => tk.got = Len(tk.content)
                  /\ ~tk.download_failed /\ tk.end = ""
                  /\ tk.writes = 1
                  /\ Readable(mf)
                  /\ ~tk.foreign_write => mf = FileOf(JsonDump(tk.server_manifest))
                  /\ dir[CLIENT_EXE].exists
                  /\ mf' = mf
                  /\ \A q \in PathSet :
                        dir'[q] # dir[q] =>
                            \E u \in Tasks \ {t} :
                                /\ task[u].pc = "streaming" /\ task[u].buffered > 0
                                /\ task[u].to_download[task[u].i] = q
      ]_vars

\* The client was started in the second run of the launcher, over the
\* second version of the client and its manifest.
C22_Witness ==
    /\ proc = "launched" /\ runs = 2
    /\ dir[CLIENT_EXE] = FileWith(ContentV2)
    /\ Readable(mf)
    /\ StoredFiles(mf) = <<Item(CLIENT_EXE, HashV2)>>

\* C23: no error value of fetch_manifest reaches the manifest file: a pass
\* that wrote the file had fetched a manifest (not a DNS or HTTP error) with
\* a files mapping and without "err"; the text of the file never holds an
\* "err" key, whole or cut short; and a file that parses has "files".
C23_ErrorValueIsNeverSaved ==
    /\ \A t \in Tasks :
          task[t].writes > 0 =>
              /\ task[t].fetched = "json"
              /\ HasKey(task[t].server_manifest, "files")
              /\ ~HasKey(task[t].server_manifest, "err")
    /\ \A n \in 1..Len(mf.text) : mf.text[n].t = "key" => mf.text[n].s # "err"
    /\ mf.exists =>
          LET r == JsonLoad(mf.text)
          IN  r.ok => HasKey(r.d, "files")

\* A pass whose manifest request got a non-2xx answer has ended, over a
\* manifest file that is there since before the pass.
C23_Witness ==
    \E t \in Tasks :
        /\ task[t].fetched = "http"
        /\ HasKey(task[t].server_manifest, "err")
        /\ task[t].pc = "crashed"
        /\ task[t].reads = 1
        /\ mf.exists /\ mf = task[t].mf0

\* C24: when a pass has saved the manifest, every path of the saved
\* manifest's files is a file of the local directory; in a pass that ran
\* alone, it is either the file the pass found, holding the declared
\* digest, or the file the pass downloaded to its end.
C24_PersistedPathsExist ==
    \A t \in Tasks :
        task[t].writes > 0 =>
            \A n \in 1..Len(task[t].server_manifest.files) :
                LET q == task[t].server_manifest.files[n].path
                    h == task[t].server_manifest.files[n].hash
                IN  /\ dir[q].exists
                    /\ Alone(t) =>
                          \/ /\ q \notin task[t].opened
                             /\ dir[q] = task[t].dir0[q]
                             /\ Digest(dir[q].data) = h
                          \/ /\ q \in task[t].opened
                             /\ dir[q] = FileWith(server.content[q])

\* In the second run, a pass at Done over a manifest of two files, one found
\* with the declared digest and one downloaded.
C24_Witness ==
    \E t \in Tasks :
        /\ Alone(t)
        /\ task[t].pc = "sleeping" /\ task[t].writes = 1
        /\ Len(task[t].server_manifest.files) = 2
        /\ task[t].opened = {CLIENT_EXE}
        /\ task[t].dir0[CLIENT_EXE] = FileWith(ContentV2)
        /\ dir[DataPath] = task[t].dir0[DataPath]
=============================================================================
